---- MODULE Spec2Model ----
(***************************************************************************)
(* Bike suspension setup calculator (suspension-calculator/).              *)
(*                                                                         *)
(* The model covers the application object `app` of script.js (the form,  *)
(* app.data, the result fields and the handlers bound to the buttons) and  *)
(* the preset catalog of calculator/presets.js.                            *)
(*                                                                         *)
(* JavaScript numbers are modelled as exact rationals together with NaN    *)
(* and Infinity.  A rational is sg * n / (d[1] * ... * d[Len(d)]) where n  *)
(* is an unbounded natural (a little-endian sequence of limbs) and d is a  *)
(* sequence of small positive integers.  The inputs of the model are       *)
(* non-negative integers, the empty text and a non-numeric text.           *)
(*                                                                         *)
(* The rounding error of IEEE-754 doubles is not modelled.  On the weights *)
(* of the model (0, 100, 180 and 450, in lbs and in kg) every Math.round   *)
(* and toFixed(1) of script.js gives the same digits in doubles as in      *)
(* exact arithmetic.  On other weights a product that is exactly halfway   *)
(* can fall just below it in doubles: (35 / 12) * 1.2 is                   *)
(* 3.4999999999999996, which Math.round takes to 3, and 50 * 1.15 is       *)
(* 57.49999999999999, which it takes to 57.                                *)
(***************************************************************************)
EXTENDS Integers, Sequences, FiniteSets, TLC

----------------------------------------------------------------------------
(* Unbounded naturals: the products of script.js exceed 32 bits.           *)

Limb == 100 * 100

RECURSIVE BigOf(_)
BigOf(n) == IF n = 0 THEN << >> ELSE << n % Limb >> \o BigOf(n \div Limb)

RECURSIVE BigToInt(_)
BigToInt(a) == IF a = << >> THEN 0 ELSE Head(a) + Limb * BigToInt(Tail(a))

RECURSIVE BigTrim(_)
BigTrim(a) ==
    IF a = << >> THEN a
    ELSE IF a[Len(a)] = 0 THEN BigTrim(SubSeq(a, 1, Len(a) - 1)) ELSE a

RECURSIVE BigAddC(_, _, _)
BigAddC(a, b, c) ==
    IF a = << >> /\ b = << >> THEN BigOf(c)
    ELSE LET x == IF a = << >> THEN 0 ELSE Head(a)
             y == IF b = << >> THEN 0 ELSE Head(b)
             t == x + y + c
         IN  << t % Limb >> \o BigAddC(IF a = << >> THEN a ELSE Tail(a),
                                       IF b = << >> THEN b ELSE Tail(b),
                                       t \div Limb)

BigAdd(a, b) == BigTrim(BigAddC(a, b, 0))

\* a * k + c for one limb k
RECURSIVE BigScaleC(_, _, _)
BigScaleC(a, k, c) ==
    IF a = << >> THEN BigOf(c)
    ELSE LET t == Head(a) * k + c
         IN  << t % Limb >> \o BigScaleC(Tail(a), k, t \div Limb)

RECURSIVE BigMul(_, _)
BigMul(a, b) ==
    IF a = << >> \/ b = << >> THEN << >>
    ELSE LET rest == BigMul(a, Tail(b))
         IN  BigAdd(BigTrim(BigScaleC(a, Head(b), 0)),
                    IF rest = << >> THEN rest ELSE << 0 >> \o rest)

RECURSIVE BigLessAt(_, _, _)
BigLessAt(a, b, i) ==
    IF i = 0 THEN FALSE
    ELSE IF a[i] # b[i] THEN a[i] < b[i] ELSE BigLessAt(a, b, i - 1)

BigLess(a, b) ==
    IF Len(a) # Len(b) THEN Len(a) < Len(b) ELSE BigLessAt(a, b, Len(a))

\* floor(a / k) for a small positive integer k (k * Limb fits in 31 bits)
RECURSIVE BigDivRem(_, _)
BigDivRem(a, k) ==
    IF a = << >> THEN [q |-> << >>, r |-> 0]
    ELSE LET hi  == BigDivRem(Tail(a), k)
             cur == hi.r * Limb + Head(a)
         IN  [q |-> << cur \div k >> \o hi.q, r |-> cur % k]

BigDiv(a, k) == BigTrim(BigDivRem(a, k).q)

\* floor(a / (d[1] * ... * d[Len(d)]))
RECURSIVE BigDivAll(_, _)
BigDivAll(a, d) == IF d = << >> THEN a ELSE BigDivAll(BigDiv(a, Head(d)), Tail(d))

RECURSIVE BigProd(_)
BigProd(d) == IF d = << >> THEN BigOf(1) ELSE BigMul(BigOf(Head(d)), BigProd(Tail(d)))

----------------------------------------------------------------------------
(* JavaScript numbers.  k is "num" (finite), "nan", "inf" (+Infinity) or   *)
(* "fn" (a function object, which ToNumber turns into NaN).                *)

JsNaN == [k |-> "nan", sg |-> 0, n |-> << >>, d |-> << >>]
JsInf == [k |-> "inf", sg |-> 1, n |-> << >>, d |-> << >>]
JsFn  == [k |-> "fn",  sg |-> 0, n |-> << >>, d |-> << >>]

\* the number literal i / scale, e.g. 2.20462 is JsDec(220462, 100000)
JsDec(i, scale) ==
    [k |-> "num", sg |-> IF i = 0 THEN 0 ELSE 1, n |-> BigOf(i),
     d |-> IF scale = 1 \/ i = 0 THEN << >> ELSE << scale >>]

JsNum(i) == JsDec(i, 1)

ToNumber(x) == IF x.k = "fn" THEN JsNaN ELSE x

\* x * y
JsMulNum(x, y) ==
    IF x.k = "nan" \/ y.k = "nan" THEN JsNaN
    ELSE IF x.k = "inf" \/ y.k = "inf"
         THEN IF x.sg = 0 \/ y.sg = 0 THEN JsNaN ELSE JsInf
    ELSE IF x.sg = 0 \/ y.sg = 0 THEN JsNum(0)
    ELSE [k |-> "num", sg |-> 1, n |-> BigMul(x.n, y.n), d |-> x.d \o y.d]

JsMul(x, y) == JsMulNum(ToNumber(x), ToNumber(y))

\* x / y, y finite with a numerator of one limb-sized factor
JsDivNum(x, y) ==
    IF x.k = "nan" \/ y.k = "nan" THEN JsNaN
    ELSE IF y.k = "inf" THEN (IF x.k = "inf" THEN JsNaN ELSE JsNum(0))
    ELSE IF y.sg = 0 THEN (IF x.sg = 0 THEN JsNaN ELSE JsInf)
    ELSE IF x.k = "inf" THEN JsInf
    ELSE IF x.sg = 0 THEN JsNum(0)
    ELSE [k |-> "num", sg |-> 1, n |-> BigMul(x.n, BigProd(y.d)),
          d |-> x.d \o << BigToInt(y.n) >>]

JsDiv(x, y) == JsDivNum(ToNumber(x), ToNumber(y))

\* x < y and x = y on finite numbers
JsLess(x, y) == BigLess(BigMul(x.n, BigProd(y.d)), BigMul(y.n, BigProd(x.d)))
JsEq(x, y)   == BigMul(x.n, BigProd(y.d)) = BigMul(y.n, BigProd(x.d))

\* floor(x * s + 1/2) for a finite x >= 0: Math.round is s = 1, the digits of
\* toFixed(1) are s = 10
RoundScaled(x, s) ==
    LET D == BigProd(x.d)
        N == BigAdd(BigMul(x.n, BigOf(2 * s)), D)
    IN  BigToInt(BigDivAll(BigDiv(N, 2), x.d))

\* a Math.round that truncates
MathRound_truncates(x) ==
    LET v == ToNumber(x)
    IN  IF v.k = "num" THEN JsNum(BigToInt(BigDivAll(v.n, v.d))) ELSE v

\* Math.round(x): an integer, NaN or Infinity
MathRound(x) ==
    LET v == ToNumber(x)
    IN  IF v.k = "num" THEN JsNum(RoundScaled(v, 1)) ELSE v

\* the text of `${x}` for an integer-valued x: [k, v]
NumText(x) ==
    LET v == ToNumber(x)
    IN  IF v.k = "num" THEN [k |-> "int", v |-> BigToInt(v.n)] ELSE [k |-> v.k, v |-> 0]

\* x.toFixed(1): the value in tenths, or the text NaN / Infinity
ToFixed1(x) ==
    LET v == ToNumber(x)
    IN  IF v.k = "num" THEN [k |-> "tenths", v |-> RoundScaled(v, 10)]
        ELSE [k |-> v.k, v |-> 0]

----------------------------------------------------------------------------
(* Property lookup on an object literal: table[key] finds the table's own  *)
(* keys and, failing that, the members every object inherits from          *)
(* Object.prototype; any other key gives undefined.                        *)

ObjectPrototypeKeys ==
    {"constructor", "toString", "valueOf", "hasOwnProperty", "__proto__"}

----------------------------------------------------------------------------
(* The form, app.data and the result fields of the page.                   *)

VARIABLES
    riderWeightEl,       \* text of the rider weight input
    weightUnitEl,        \* "lbs" or "kg"
    suspensionTravelEl,  \* text of the shock travel input
    forkTravelEl,        \* text of the fork travel input
    ridingStyleEl,       \* the riding style id chosen
    bikeModelEl,         \* the bike model id chosen
    data,                \* app.data
    page,                \* textContent of the result elements and the notes
    resultsDisplay,      \* resultsSection.style.display
    lastAlert,           \* the alert raised by the latest handleCalculate
    calls,               \* the latest direct calls of the calculate* methods
    lastLookup,          \* the latest call of each catalog lookup
    catalog,             \* the tables of presets.js as they are now
    lastMath,            \* the latest call of a function of suspension-math.js
    lastConversion,      \* the latest call of a unit conversion of utils.js
    exported,            \* the record written by the latest handleExport
    wait,                \* the wait a debounced function was made with
    clock,               \* the time in milliseconds
    timeout,             \* the timeout variable of the debounced function
    timers,              \* the timers set and neither run nor cleared
    nextTimer,           \* the id the next setTimeout returns
    events               \* the calls of the debounced function and of func

formVars == << riderWeightEl, weightUnitEl, suspensionTravelEl, forkTravelEl,
               ridingStyleEl, bikeModelEl >>
appVars  == << formVars, data, page, resultsDisplay, lastAlert >>
debounceVars == << wait, clock, timeout, timers, nextTimer, events >>
otherVars == << catalog, lastMath, lastConversion, exported, debounceVars >>
vars     == << appVars, calls, lastLookup, otherVars >>

\* the text of an input element: empty, a decimal integer, or other text
Empty      == [k |-> "empty", v |-> 0]
Junk       == [k |-> "junk", v |-> 0]
IntText(i) == [k |-> "int", v |-> i]

\* parseFloat(text): the integer, or NaN
parseFloat(t) == IF t.k = "int" THEN [k |-> "int", v |-> t.v] ELSE [k |-> "nan", v |-> 0]

\* an app.data number as a JavaScript number
ToJs(p) == IF p.k = "int" THEN JsNum(p.v) ELSE JsNaN

Blank == [k |-> "blank", v |-> 0]

\* bikePresets[model], the flat bike model table read by handleBikeModelChange
bikePresets ==
    [m \in {"trailMTB"} |-> [suspensionTravel |-> 130, forkTravel |-> 140]]

\* calculateSpringRate(weightLbs, travelMm, component) of the empirical
\* strategy: weight to Newtons, travel to metres, (N / m) / 1000, scaled by the
\* component factor
springRateEmpirical(weightLbs, travelMm, component) ==
    LET force   == JsMul(weightLbs, JsDec(4448, 1000))
        travelM == JsDiv(travelMm, JsNum(1000))
        factor  == IF component = "fork" THEN JsDec(45, 100) ELSE JsDec(55, 100)
    IN  JsMul(JsDiv(JsDiv(force, travelM), JsNum(1000)), factor)

\* calculateSag(travel, component): the fixed sag target of the component
calculateSag(travel, component) == IF component = "fork" THEN 25 ELSE 30

\* a validation that does not look at the suspension travel
ValidationAlert_skipsSuspensionTravel ==
    IF riderWeightEl.k = "empty" THEN "Please enter your rider weight"
    ELSE IF forkTravelEl.k = "empty" THEN "Please enter fork travel"
    ELSE ""

ValidationAlert ==
    IF riderWeightEl.k = "empty" THEN "Please enter your rider weight"
    ELSE IF suspensionTravelEl.k = "empty" THEN "Please enter suspension travel"
    ELSE IF forkTravelEl.k = "empty" THEN "Please enter fork travel"
    ELSE ""

validateInput == ValidationAlert = ""

collectFormData ==
    [riderWeight      |-> parseFloat(riderWeightEl),
     weightUnit       |-> weightUnitEl,
     suspensionTravel |-> parseFloat(suspensionTravelEl),
     forkTravel       |-> parseFloat(forkTravelEl),
     ridingStyle      |-> ridingStyleEl,
     bikeModel        |-> bikeModelEl]

multipliers ==
    [s \in {"xc", "trail", "enduro", "dh"} |->
        CASE s = "xc"     -> JsDec(12, 10)
          [] s = "trail"  -> JsDec(10, 10)
          [] s = "enduro" -> JsDec(9, 10)
          [] s = "dh"     -> JsDec(8, 10)]

\* multipliers[style] || 1.0
getStyleMultiplier(style) ==
    IF style \in DOMAIN multipliers THEN multipliers[style]
    ELSE IF style \in ObjectPrototypeKeys THEN JsFn
    ELSE JsDec(10, 10)

\* a fork spring rate that reads the travel from the form, not from this.data
ForkSpringRate_readsForm(d, weightInLbs, multiplier) ==
    JsMul(springRateEmpirical(weightInLbs, ToJs(parseFloat(forkTravelEl)), "fork"),
          multiplier)

\* calculateSpringRate(weightInLbs, this.data.forkTravel, 'fork') * multiplier
ForkSpringRate(d, weightInLbs, multiplier) ==
    JsMul(springRateEmpirical(weightInLbs, ToJs(d.forkTravel), "fork"), multiplier)

\* a shock spring rate computed from the fork travel
ShockSpringRate_usesForkTravel(d, weightInLbs, multiplier) ==
    JsMul(springRateEmpirical(weightInLbs, ToJs(d.forkTravel), "shock"), multiplier)

\* calculateSpringRate(weightInLbs, this.data.suspensionTravel, 'shock') * multiplier
ShockSpringRate(d, weightInLbs, multiplier) ==
    JsMul(springRateEmpirical(weightInLbs, ToJs(d.suspensionTravel), "shock"), multiplier)

\* d is this.data
calculateForkSetup(d, weightInLbs, multiplier) ==
    LET springRate  == ForkSpringRate(d, weightInLbs, multiplier)
        compression == MathRound(JsMul(JsDiv(weightInLbs, JsNum(10)), multiplier))
        rebound     == MathRound(JsMul(compression, JsDec(12, 10)))
        sag         == calculateSag(d.forkTravel, "fork")
    IN  [springRate  |-> ToFixed1(springRate),
         compression |-> NumText(compression),
         rebound     |-> NumText(rebound),
         sag         |-> IntText(sag)]

calculateShockSetup(d, weightInLbs, multiplier) ==
    LET springRate  == ShockSpringRate(d, weightInLbs, multiplier)
        compression == MathRound(JsMul(JsDiv(weightInLbs, JsNum(12)), multiplier))
        rebound     == MathRound(JsMul(compression, JsDec(115, 100)))
        sag         == calculateSag(d.suspensionTravel, "shock")
    IN  [springRate  |-> ToFixed1(springRate),
         compression |-> NumText(compression),
         rebound     |-> NumText(rebound),
         sag         |-> IntText(sag)]

weightInLbsOf(d) ==
    IF d.weightUnit = "kg"
    THEN JsMul(ToJs(d.riderWeight), JsDec(220462, 100000))
    ELSE ToJs(d.riderWeight)

calculateSetup(d) ==
    LET weightInLbs     == weightInLbsOf(d)
        styleMultiplier == getStyleMultiplier(d.ridingStyle)
    IN  [fork  |-> calculateForkSetup(d, weightInLbs, styleMultiplier),
         shock |-> calculateShockSetup(d, weightInLbs, styleMultiplier)]

notes ==
    [s \in {"xc", "trail", "enduro", "dh"} |->
        CASE s = "xc"     -> "XC setup: Stiffer settings for efficiency. Start with recommended values and adjust based on trail feedback."
          [] s = "trail"  -> "Trail setup: Balanced compression and rebound. Great starting point for general trail riding."
          [] s = "enduro" -> "Enduro setup: Slightly softer for comfort on long descents. Consider adding volume spacers for progression."
          [] s = "dh"     -> "DH setup: Softer damping for small bump compliance. Prepare for adjustments based on terrain."]

FallbackNote == "Adjust settings based on personal preference and terrain conditions."

\* notes[style] || fallback; an inherited member is shown as its source text
generateNotes(d) ==
    LET style == d.ridingStyle
    IN  IF style \in DOMAIN notes THEN notes[style]
        ELSE IF style \in ObjectPrototypeKeys THEN "function " \o style
        ELSE FallbackNote

\* a displayResults that writes each sag to the other component's field
displayResults_swapsSag(d, setup) ==
    [forkSpringRate   |-> setup.fork.springRate,
     forkCompression  |-> setup.fork.compression,
     forkRebound      |-> setup.fork.rebound,
     forkSag          |-> setup.shock.sag,
     shockSpringRate  |-> setup.shock.springRate,
     shockCompression |-> setup.shock.compression,
     shockRebound     |-> setup.shock.rebound,
     shockSag         |-> setup.fork.sag,
     setupNotes       |-> generateNotes(d)]

\* the page after displayResults(setup)
displayResults(d, setup) ==
    [forkSpringRate   |-> setup.fork.springRate,
     forkCompression  |-> setup.fork.compression,
     forkRebound      |-> setup.fork.rebound,
     forkSag          |-> setup.fork.sag,
     shockSpringRate  |-> setup.shock.springRate,
     shockCompression |-> setup.shock.compression,
     shockRebound     |-> setup.shock.rebound,
     shockSag         |-> setup.shock.sag,
     setupNotes       |-> generateNotes(d)]

InitData ==
    [riderWeight      |-> [k |-> "int", v |-> 0],
     weightUnit       |-> "lbs",
     suspensionTravel |-> [k |-> "int", v |-> 0],
     forkTravel       |-> [k |-> "int", v |-> 0],
     ridingStyle      |-> "trail",
     bikeModel        |-> ""]

InitPage ==
    [forkSpringRate   |-> Blank, forkCompression  |-> Blank,
     forkRebound      |-> Blank, forkSag          |-> Blank,
     shockSpringRate  |-> Blank, shockCompression |-> Blank,
     shockRebound     |-> Blank, shockSag         |-> Blank,
     setupNotes       |-> ""]

NoCall   == [fn |-> "", w |-> JsNaN, m |-> JsNaN, d |-> InitData, r |-> << >>]
NoLookup == [id |-> "", r |-> [k |-> "none", id |-> ""]]

----------------------------------------------------------------------------
(* The user's edits of the form.                                           *)

SetRiderWeight(W) ==
    /\ \E t \in W : riderWeightEl' = t
    /\ UNCHANGED << weightUnitEl, suspensionTravelEl, forkTravelEl, ridingStyleEl,
                    bikeModelEl, data, page, resultsDisplay, lastAlert, calls, lastLookup, otherVars >>

SetWeightUnit(U) ==
    /\ \E u \in U : weightUnitEl' = u
    /\ UNCHANGED << riderWeightEl, suspensionTravelEl, forkTravelEl, ridingStyleEl,
                    bikeModelEl, data, page, resultsDisplay, lastAlert, calls, lastLookup, otherVars >>

SetSuspensionTravel(T) ==
    /\ \E t \in T : suspensionTravelEl' = t
    /\ UNCHANGED << riderWeightEl, weightUnitEl, forkTravelEl, ridingStyleEl,
                    bikeModelEl, data, page, resultsDisplay, lastAlert, calls, lastLookup, otherVars >>

SetForkTravel(T) ==
    /\ \E t \in T : forkTravelEl' = t
    /\ UNCHANGED << riderWeightEl, weightUnitEl, suspensionTravelEl, ridingStyleEl,
                    bikeModelEl, data, page, resultsDisplay, lastAlert, calls, lastLookup, otherVars >>

SetRidingStyle(S) ==
    /\ \E s \in S : ridingStyleEl' = s
    /\ UNCHANGED << riderWeightEl, weightUnitEl, suspensionTravelEl, forkTravelEl,
                    bikeModelEl, data, page, resultsDisplay, lastAlert, calls, lastLookup, otherVars >>

----------------------------------------------------------------------------
(* The handlers bound by bindEvents.                                       *)

\* the change event of the bike model select: e.target.value is model
handleBikeModelChange(B) ==
    /\ \E model \in B :
          /\ bikeModelEl' = model
          /\ IF model # "" /\ model \in DOMAIN bikePresets
             THEN /\ suspensionTravelEl' = IntText(bikePresets[model].suspensionTravel)
                  /\ forkTravelEl' = IntText(bikePresets[model].forkTravel)
             ELSE UNCHANGED << suspensionTravelEl, forkTravelEl >>
    /\ UNCHANGED << riderWeightEl, weightUnitEl, ridingStyleEl,
                    data, page, resultsDisplay, lastAlert, calls, lastLookup, otherVars >>

\* a handler that collects the form before validating it
handleCalculate_collectsFirst ==
    /\ lastAlert' = ValidationAlert
    /\ data' = collectFormData
    /\ IF ~validateInput
       THEN UNCHANGED << page, resultsDisplay >>
       ELSE /\ page' = displayResults(data', calculateSetup(data'))
            /\ resultsDisplay' = "block"
    /\ UNCHANGED << formVars, calls, lastLookup, otherVars >>

handleCalculate ==
    /\ lastAlert' = ValidationAlert
    /\ IF ~validateInput
       THEN UNCHANGED << data, page, resultsDisplay >>
       ELSE /\ data' = collectFormData
            /\ page' = displayResults(data', calculateSetup(data'))
            /\ resultsDisplay' = "block"
    /\ UNCHANGED << formVars, calls, lastLookup, otherVars >>

handleReset ==
    /\ bikeModelEl' = ""
    /\ riderWeightEl' = Empty
    /\ suspensionTravelEl' = Empty
    /\ forkTravelEl' = Empty
    /\ ridingStyleEl' = "trail"
    /\ resultsDisplay' = "none"
    /\ UNCHANGED << weightUnitEl, data, page, lastAlert, calls, lastLookup, otherVars >>

\* the record handleExport serialises; a template literal `${a}${b}` is kept as
\* the pair of its parts, the date is left out
handleExport ==
    /\ exported' =
          [riderWeight      |-> << data.riderWeight, " ", data.weightUnit >>,
           bikeModel        |-> IF data.bikeModel = "" THEN "Custom" ELSE data.bikeModel,
           ridingStyle      |-> data.ridingStyle,
           suspensionTravel |-> << data.suspensionTravel, "mm" >>,
           forkTravel       |-> << data.forkTravel, "mm" >>,
           results |->
              [fork  |-> [springRate  |-> page.forkSpringRate,
                          compression |-> page.forkCompression,
                          rebound     |-> page.forkRebound,
                          sag         |-> page.forkSag],
               shock |-> [springRate  |-> page.shockSpringRate,
                          compression |-> page.shockCompression,
                          rebound     |-> page.shockRebound,
                          sag         |-> page.shockSag]]]
    /\ UNCHANGED << appVars, calls, lastLookup, catalog, lastMath, lastConversion,
                    debounceVars >>

----------------------------------------------------------------------------
(* Direct calls of the calculate* methods of app, as a caller holding the  *)
(* object can make them.  calls keeps the latest MaxCalls calls: the       *)
(* method, its arguments, app.data at the call and the value returned.     *)

MaxCalls == 2

Logged(c) ==
    IF Len(calls) < MaxCalls THEN Append(calls, c) ELSE Append(Tail(calls), c)

CallCalculateSetup ==
    /\ calls' = Logged([fn |-> "calculateSetup", w |-> JsNaN, m |-> JsNaN,
                        d |-> data, r |-> calculateSetup(data)])
    /\ UNCHANGED << appVars, lastLookup, otherVars >>

CallCalculateForkSetup(W, M) ==
    /\ \E w \in W, m \in M :
          calls' = Logged([fn |-> "calculateForkSetup", w |-> w, m |-> m,
                           d |-> data, r |-> calculateForkSetup(data, w, m)])
    /\ UNCHANGED << appVars, lastLookup, otherVars >>

CallCalculateShockSetup(W, M) ==
    /\ \E w \in W, m \in M :
          calls' = Logged([fn |-> "calculateShockSetup", w |-> w, m |-> m,
                           d |-> data, r |-> calculateShockSetup(data, w, m)])
    /\ UNCHANGED << appVars, lastLookup, otherVars >>

----------------------------------------------------------------------------
(* The preset catalog of calculator/presets.js.  An entry is kept by the   *)
(* fields the lookups and the combinations refer to.                       *)

BIKE_PRESETS ==
    [id \in {"hardtail", "trailMTB", "enduroMTB", "downhillMTB", "gravelBike",
             "parkBike", "eMTB"} |->
        CASE id = "hardtail"    -> [name |-> "Hardtail Mountain Bike", front |-> 100, rear |-> << >>]
          [] id = "trailMTB"    -> [name |-> "Trail Mountain Bike", front |-> 140, rear |-> << 130 >>]
          [] id = "enduroMTB"   -> [name |-> "Enduro Mountain Bike", front |-> 160, rear |-> << 150 >>]
          [] id = "downhillMTB" -> [name |-> "Downhill Mountain Bike", front |-> 200, rear |-> << 200 >>]
          [] id = "gravelBike"  -> [name |-> "Gravel Bike", front |-> 40, rear |-> << >>]
          [] id = "parkBike"    -> [name |-> "Park/Slopestyle Bike", front |-> 180, rear |-> << 170 >>]
          [] id = "eMTB"        -> [name |-> "E-Mountain Bike", front |-> 150, rear |-> << 140 >>]]

RIDING_PROFILES ==
    [id \in {"xc", "trail", "enduro", "downhill", "casual", "park"} |->
        CASE id = "xc"       -> [name |-> "Cross-Country (XC)", sagFront |-> 20, sagRear |-> 22]
          [] id = "trail"    -> [name |-> "Trail Riding", sagFront |-> 25, sagRear |-> 28]
          [] id = "enduro"   -> [name |-> "Enduro Racing", sagFront |-> 28, sagRear |-> 30]
          [] id = "downhill" -> [name |-> "Downhill Racing", sagFront |-> 30, sagRear |-> 33]
          [] id = "casual"   -> [name |-> "Casual Riding", sagFront |-> 25, sagRear |-> 27]
          [] id = "park"     -> [name |-> "Park/Jumps", sagFront |-> 23, sagRear |-> 25]]

PRESET_COMBINATIONS ==
    [id \in {"hardtail-xc", "trail-mtb-trail", "trail-mtb-enduro", "enduro-mtb-enduro",
             "downhill-mtb-downhill", "park-bike-park", "emtb-trail"} |->
        CASE id = "hardtail-xc"           -> [name |-> "Hardtail XC", bike |-> "hardtail", profile |-> "xc"]
          [] id = "trail-mtb-trail"       -> [name |-> "Trail MTB - Trail Riding", bike |-> "trailMTB", profile |-> "trail"]
          [] id = "trail-mtb-enduro"      -> [name |-> "Trail MTB - Enduro Racing", bike |-> "trailMTB", profile |-> "enduro"]
          [] id = "enduro-mtb-enduro"     -> [name |-> "Enduro MTB - Enduro Racing", bike |-> "enduroMTB", profile |-> "enduro"]
          [] id = "downhill-mtb-downhill" -> [name |-> "Downhill MTB - DH Racing", bike |-> "downhillMTB", profile |-> "downhill"]
          [] id = "park-bike-park"        -> [name |-> "Park Bike - Park/Jumps", bike |-> "parkBike", profile |-> "park"]
          [] id = "emtb-trail"            -> [name |-> "E-MTB - Trail Riding", bike |-> "eMTB", profile |-> "trail"]]

\* TABLE[id] || null: a reference to the table's own entry, a member inherited
\* from Object.prototype (a truthy object), or null
Null == [k |-> "null", id |-> ""]

LookupOrNull(table, id) ==
    IF id \in DOMAIN table THEN [k |-> "ref", id |-> id]
    ELSE IF id \in ObjectPrototypeKeys THEN [k |-> "proto", id |-> id]
    ELSE Null

getBikePreset(bikeId)               == LookupOrNull(catalog.BIKE_PRESETS, bikeId)
getRidingProfile(profileId)         == LookupOrNull(catalog.RIDING_PROFILES, profileId)
getPresetCombination(combinationId) == LookupOrNull(catalog.PRESET_COMBINATIONS, combinationId)

CallGetBikePreset(I) ==
    /\ \E id \in I :
          lastLookup' = [lastLookup EXCEPT !["getBikePreset"] =
                            [id |-> id, r |-> getBikePreset(id)]]
    /\ UNCHANGED << appVars, calls, otherVars >>

CallGetRidingProfile(I) ==
    /\ \E id \in I :
          lastLookup' = [lastLookup EXCEPT !["getRidingProfile"] =
                            [id |-> id, r |-> getRidingProfile(id)]]
    /\ UNCHANGED << appVars, calls, otherVars >>

CallGetPresetCombination(I) ==
    /\ \E id \in I :
          lastLookup' = [lastLookup EXCEPT !["getPresetCombination"] =
                            [id |-> id, r |-> getPresetCombination(id)]]
    /\ UNCHANGED << appVars, calls, otherVars >>

\* Object.keys(TABLE): a new array of the table's own ids
getAvailableBikes        == DOMAIN catalog.BIKE_PRESETS
getAvailableProfiles     == DOMAIN catalog.RIDING_PROFILES
getAvailableCombinations == DOMAIN catalog.PRESET_COMBINATIONS

\* the table a lookup reads
TableNameOf(f) ==
    CASE f = "getBikePreset"        -> "BIKE_PRESETS"
      [] f = "getRidingProfile"     -> "RIDING_PROFILES"
      [] f = "getPresetCombination" -> "PRESET_COMBINATIONS"

\* A caller assigns the name property of the object the latest lookup
\* returned.  The lookups return the table's entry itself, not a copy, and
\* the tables and their entries are not frozen, so the assignment is an
\* assignment to the entry.
AssignNameOfReturned(N) ==
    /\ \E f \in DOMAIN lastLookup, name \in N :
          /\ lastLookup[f].r.k = "ref"
          /\ catalog' = [catalog EXCEPT ![TableNameOf(f)][lastLookup[f].r.id].name = name]
    /\ UNCHANGED << appVars, calls, lastLookup, lastMath, lastConversion, exported,
                    debounceVars >>

\* A caller resolves what getPresetCombination returned: it reads the bike
\* and the profile property of the value and looks them up.  A member
\* inherited from Object.prototype has neither property; undefined, used as a
\* property key, is the key "undefined".
BikeOf(c) ==
    IF c.k = "ref" THEN catalog.PRESET_COMBINATIONS[c.id].bike ELSE "undefined"

ProfileOf(c) ==
    IF c.k = "ref" THEN catalog.PRESET_COMBINATIONS[c.id].profile ELSE "undefined"

\* if (combination) getBikePreset(combination.bike)
ResolveBike ==
    /\ lastLookup["getPresetCombination"].r.k \in {"ref", "proto"}
    /\ lastLookup' = [lastLookup EXCEPT !["getBikePreset"] =
                         [id |-> BikeOf(lastLookup["getPresetCombination"].r),
                          r  |-> getBikePreset(BikeOf(lastLookup["getPresetCombination"].r))]]
    /\ UNCHANGED << appVars, calls, otherVars >>

\* if (combination) getRidingProfile(combination.profile)
ResolveProfile ==
    /\ lastLookup["getPresetCombination"].r.k \in {"ref", "proto"}
    /\ lastLookup' = [lastLookup EXCEPT !["getRidingProfile"] =
                         [id |-> ProfileOf(lastLookup["getPresetCombination"].r),
                          r  |-> getRidingProfile(ProfileOf(lastLookup["getPresetCombination"].r))]]
    /\ UNCHANGED << appVars, calls, otherVars >>

NoMath       == [fn |-> "", args |-> << >>, r |-> [k |-> "none"]]
NoConversion == [fn |-> "", x |-> [k |-> "none"], r |-> [k |-> "none"]]
NoExport     == [k |-> "none"]

----------------------------------------------------------------------------
(* calculator/suspension-math.js.  An argument is a number of either sign  *)
(* or NaN.  A call ends by throwing an Error or by returning a value; a    *)
(* value whose formula has a square root or pi is kept as the formula      *)
(* applied to the arguments.                                               *)

JsNeg(x) == IF x.k = "num" THEN [x EXCEPT !.sg = 0 - x.sg] ELSE x

\* x <= 0 and x < 0: false when x is NaN
LeqZero(x) == x.k = "num" /\ x.sg <= 0
LtZero(x)  == x.k = "num" /\ x.sg < 0

\* x + y on non-negative numbers
JsAdd(x, y) ==
    IF x.k = "nan" \/ y.k = "nan" THEN JsNaN
    ELSE IF x.k = "inf" \/ y.k = "inf" THEN JsInf
    ELSE IF x.sg = 0 THEN y
    ELSE IF y.sg = 0 THEN x
    ELSE [k |-> "num", sg |-> 1,
          n |-> BigAdd(BigMul(x.n, BigProd(y.d)), BigMul(y.n, BigProd(x.d))),
          d |-> x.d \o y.d]

\* x / y for y > 0 and x of either sign
JsDivSigned(x, y) ==
    IF x.k = "num" /\ x.sg < 0 THEN JsNeg(JsDiv(JsNeg(x), y)) ELSE JsDiv(x, y)

Throw(message) == [k |-> "throw", message |-> message]
Return(v)      == [k |-> "return", v |-> v]

\* the value of a formula with a square root or pi: NaN when an argument is NaN
Formula(text, args) ==
    IF \E i \in DOMAIN args : args[i].k = "nan" THEN JsNaN
    ELSE [k |-> "formula", text |-> text, args |-> args]

calculateSpringRate(frequency, mass) ==
    IF LeqZero(frequency) \/ LeqZero(mass)
    THEN Throw("Frequency and mass must be positive values")
    ELSE Return(Formula("Math.pow(2 * Math.PI * frequency, 2) * mass", << frequency, mass >>))

calculateNaturalFrequency(springRate, mass) ==
    IF LeqZero(springRate) \/ LeqZero(mass)
    THEN Throw("Spring rate and mass must be positive values")
    ELSE Return(Formula("Math.sqrt(springRate / mass) / (2 * Math.PI)", << springRate, mass >>))

calculateDampingCoefficient(dampingRatio, springRate, mass) ==
    IF LtZero(dampingRatio) \/ LeqZero(springRate) \/ LeqZero(mass)
    THEN Throw("Damping ratio must be non-negative; spring rate and mass must be positive")
    ELSE Return(Formula("dampingRatio * 2 * Math.sqrt(springRate * mass)",
                        << dampingRatio, springRate, mass >>))

calculateDampingRatio(dampingCoefficient, springRate, mass) ==
    IF LtZero(dampingCoefficient) \/ LeqZero(springRate) \/ LeqZero(mass)
    THEN Throw("Damping coefficient must be non-negative; spring rate and mass must be positive")
    ELSE Return(Formula("dampingCoefficient / (2 * Math.sqrt(springRate * mass))",
                        << dampingCoefficient, springRate, mass >>))

calculateCriticalDamping(springRate, mass) ==
    IF LeqZero(springRate) \/ LeqZero(mass)
    THEN Throw("Spring rate and mass must be positive values")
    ELSE Return(Formula("2 * Math.sqrt(springRate * mass)", << springRate, mass >>))

calculatePeriod(frequency) ==
    IF LeqZero(frequency)
    THEN Throw("Frequency must be a positive value")
    ELSE Return(JsDiv(JsNum(1), frequency))

calculateDeflection(force, springRate) ==
    IF LeqZero(springRate)
    THEN Throw("Spring rate must be a positive value")
    ELSE Return(JsDivSigned(force, springRate))

\* a series rate that divides by twice the first rate
calculateSeriesSpringRate_firstTwice(springRate1, springRate2) ==
    IF LeqZero(springRate1) \/ LeqZero(springRate2)
    THEN Throw("Spring rates must be positive values")
    ELSE Return(JsDiv(JsMul(springRate1, springRate2), JsAdd(springRate1, springRate1)))

calculateSeriesSpringRate(springRate1, springRate2) ==
    IF LeqZero(springRate1) \/ LeqZero(springRate2)
    THEN Throw("Spring rates must be positive values")
    ELSE Return(JsDiv(JsMul(springRate1, springRate2), JsAdd(springRate1, springRate2)))

calculateParallelSpringRate(springRate1, springRate2) ==
    IF LeqZero(springRate1) \/ LeqZero(springRate2)
    THEN Throw("Spring rates must be positive values")
    ELSE Return(JsAdd(springRate1, springRate2))

\* x < y and x === y: false when an operand is NaN
JsLt(x, y) ==
    /\ x.k = "num" /\ y.k = "num"
    /\ IF x.sg # y.sg THEN x.sg < y.sg
       ELSE IF x.sg = 0 THEN FALSE
       ELSE IF x.sg = 1 THEN JsLess(x, y) ELSE JsLess(y, x)

JsStrictEq(x, y) == x.k = "num" /\ y.k = "num" /\ x.sg = y.sg /\ JsEq(x, y)

\* (hi * 100000 + lo) / 10^10, a ratio near 1
NearOne(hi, lo) ==
    [k |-> "num", sg |-> 1,
     n |-> BigAdd(BigMul(BigOf(hi), BigOf(100000)), BigOf(lo)),
     d |-> << 100000, 100000 >>]

\* a classifyDamping that takes every ratio within 1e-9 of 1 as equal to 1
classifyDamping_tolerance(dampingRatio) ==
    IF JsLt(dampingRatio, JsNum(0)) THEN Throw("Damping ratio cannot be negative")
    ELSE IF JsLt(dampingRatio, NearOne(99999, 99990)) THEN Return("underdamped")
    ELSE IF ~JsLt(NearOne(100000, 10), dampingRatio) /\ dampingRatio.k = "num"
         THEN Return("critically damped")
    ELSE Return("overdamped")

classifyDamping(dampingRatio) ==
    IF JsLt(dampingRatio, JsNum(0)) THEN Throw("Damping ratio cannot be negative")
    ELSE IF JsLt(dampingRatio, JsNum(1)) THEN Return("underdamped")
    ELSE IF JsStrictEq(dampingRatio, JsNum(1)) THEN Return("critically damped")
    ELSE Return("overdamped")

\* a call of fn with args that ended with r
MathCall(fn, args, r) == [fn |-> fn, args |-> args, r |-> r]

notMathVars == << appVars, calls, lastLookup, catalog, lastConversion, exported,
                  debounceVars >>

CallSpringRate(A) ==
    /\ \E f \in A, m \in A : lastMath' = MathCall("calculateSpringRate", << f, m >>, calculateSpringRate(f, m))
    /\ UNCHANGED notMathVars

CallNaturalFrequency(A) ==
    /\ \E k \in A, m \in A :
          lastMath' = MathCall("calculateNaturalFrequency", << k, m >>, calculateNaturalFrequency(k, m))
    /\ UNCHANGED notMathVars

CallDampingCoefficient(A) ==
    /\ \E z \in A, k \in A, m \in A :
          lastMath' = MathCall("calculateDampingCoefficient", << z, k, m >>,
          calculateDampingCoefficient(z, k, m))
    /\ UNCHANGED notMathVars

CallDampingRatio(A) ==
    /\ \E c \in A, k \in A, m \in A :
          lastMath' = MathCall("calculateDampingRatio", << c, k, m >>, calculateDampingRatio(c, k, m))
    /\ UNCHANGED notMathVars

CallCriticalDamping(A) ==
    /\ \E k \in A, m \in A :
          lastMath' = MathCall("calculateCriticalDamping", << k, m >>, calculateCriticalDamping(k, m))
    /\ UNCHANGED notMathVars

CallPeriod(A) ==
    /\ \E f \in A : lastMath' = MathCall("calculatePeriod", << f >>, calculatePeriod(f))
    /\ UNCHANGED notMathVars

CallClassifyDamping(R) ==
    /\ \E z \in R : lastMath' = MathCall("classifyDamping", << z >>, classifyDamping(z))
    /\ UNCHANGED notMathVars

CallDeflection(A) ==
    /\ \E f \in A, k \in A : lastMath' = MathCall("calculateDeflection", << f, k >>, calculateDeflection(f, k))
    /\ UNCHANGED notMathVars

CallSeriesSpringRate(A) ==
    /\ \E k1 \in A, k2 \in A :
          lastMath' = MathCall("calculateSeriesSpringRate", << k1, k2 >>, calculateSeriesSpringRate(k1, k2))
    /\ UNCHANGED notMathVars

CallParallelSpringRate(A) ==
    /\ \E k1 \in A, k2 \in A :
          lastMath' = MathCall("calculateParallelSpringRate", << k1, k2 >>,
          calculateParallelSpringRate(k1, k2))
    /\ UNCHANGED notMathVars

----------------------------------------------------------------------------
(* calculator/utils.js: the unit conversions.  An argument is any          *)
(* JavaScript value: a number of either sign, NaN, Infinity, a string or   *)
(* undefined.                                                              *)

JsString    == [k |-> "string",    sg |-> 0, n |-> << >>, d |-> << >>]
JsUndefined == [k |-> "undefined", sg |-> 0, n |-> << >>, d |-> << >>]
JsNull      == [k |-> "null",      sg |-> 0, n |-> << >>, d |-> << >>]

\* typeof value === 'number' && !isNaN(value) && isFinite(value)
isValidNumber(value) == value.k = "num"

\* x * y for y > 0 and x of either sign
JsMulSigned(x, y) ==
    IF x.k = "num" /\ x.sg < 0 THEN JsNeg(JsMul(JsNeg(x), y)) ELSE JsMul(x, y)

\* the literal 0.453592, as 56699 / 125000
LbKg == JsDec(56699, 125000)
\* the literal 25.4
InchMm == JsDec(254, 10)

lbsToKg(lbs) ==
    IF ~isValidNumber(lbs) THEN JsNull ELSE JsMulSigned(lbs, LbKg)

kgToLbs(kg) ==
    IF ~isValidNumber(kg) THEN JsNull ELSE JsDivSigned(kg, LbKg)

mmToInches(mm) ==
    IF ~isValidNumber(mm) THEN JsNull ELSE JsDivSigned(mm, InchMm)

inchesToMm(inches) ==
    IF ~isValidNumber(inches) THEN JsNull ELSE JsMulSigned(inches, InchMm)

notConversionVars == << appVars, calls, lastLookup, catalog, lastMath, exported,
                        debounceVars >>

CallLbsToKg(X) ==
    /\ \E x \in X : lastConversion' = [fn |-> "lbsToKg", x |-> x, r |-> lbsToKg(x)]
    /\ UNCHANGED notConversionVars

CallKgToLbs(X) ==
    /\ \E x \in X : lastConversion' = [fn |-> "kgToLbs", x |-> x, r |-> kgToLbs(x)]
    /\ UNCHANGED notConversionVars

CallMmToInches(X) ==
    /\ \E x \in X : lastConversion' = [fn |-> "mmToInches", x |-> x, r |-> mmToInches(x)]
    /\ UNCHANGED notConversionVars

CallInchesToMm(X) ==
    /\ \E x \in X : lastConversion' = [fn |-> "inchesToMm", x |-> x, r |-> inchesToMm(x)]
    /\ UNCHANGED notConversionVars

----------------------------------------------------------------------------
(* debounce(func, wait) of script.js.  The state is that of one debounced  *)
(* function after debounce returned it.  A timer is the task setTimeout    *)
(* queued: its id, the time from which it may run and the arguments its    *)
(* closure later holds.  A timer never runs before its time; it may run    *)
(* any time after it, since other tasks can be ahead of it.                *)

MaxTime         == 4
MaxWrapperCalls == 2

\* the id of a timeout variable never assigned (undefined)
NoTimer == 0

clearTimeout(ts, id) == {t \in ts : t.id # id}

\* a debounced function that leaves the timer of the call before in place
executedFunction_keepsTimer(Args) ==
    /\ nextTimer <= MaxWrapperCalls
    /\ clock + wait <= MaxTime
    /\ \E args \in Args :
          /\ timers' = timers \cup {[id |-> nextTimer, due |-> clock + wait, args |-> args]}
          /\ events' = Append(events, [type |-> "call", args |-> args, at |-> clock])
    /\ timeout' = nextTimer
    /\ nextTimer' = nextTimer + 1
    /\ UNCHANGED << appVars, calls, lastLookup, catalog, lastMath, lastConversion,
                    exported, wait, clock >>

\* a call of the debounced function: clearTimeout(timeout), then
\* timeout = setTimeout(later, wait)
executedFunction(Args) ==
    /\ nextTimer <= MaxWrapperCalls
    /\ clock + wait <= MaxTime
    /\ \E args \in Args :
          /\ timers' = clearTimeout(timers, timeout)
                            \cup {[id |-> nextTimer, due |-> clock + wait, args |-> args]}
          /\ events' = Append(events, [type |-> "call", args |-> args, at |-> clock])
    /\ timeout' = nextTimer
    /\ nextTimer' = nextTimer + 1
    /\ UNCHANGED << appVars, calls, lastLookup, catalog, lastMath, lastConversion,
                    exported, wait, clock >>

\* a timer runs its closure: clearTimeout(timeout), then func(...args)
later ==
    /\ \E t \in timers :
          /\ t.due <= clock
          /\ timers' = clearTimeout(timers \ {t}, timeout)
          /\ events' = Append(events, [type |-> "func", args |-> t.args, at |-> clock])
    /\ UNCHANGED << appVars, calls, lastLookup, catalog, lastMath, lastConversion,
                    exported, wait, clock, timeout, nextTimer >>

\* a millisecond passes
TimePasses ==
    /\ clock < MaxTime
    /\ clock' = clock + 1
    /\ UNCHANGED << appVars, calls, lastLookup, catalog, lastMath, lastConversion,
                    exported, wait, timeout, timers, nextTimer, events >>

\* the state after debounce(func, w) returned, for a w of W
InitDebounce(W) ==
    /\ wait \in W
    /\ clock = 0
    /\ timeout = NoTimer
    /\ timers = {}
    /\ nextTimer = 1
    /\ events = << >>

\* the state of the libraries at load
InitLibrary ==
    /\ catalog = [BIKE_PRESETS |-> BIKE_PRESETS, RIDING_PROFILES |-> RIDING_PROFILES,
                  PRESET_COMBINATIONS |-> PRESET_COMBINATIONS]
    /\ lastMath = NoMath
    /\ lastConversion = NoConversion
    /\ exported = NoExport

\* the page at load
InitApp ==
    /\ riderWeightEl = Empty
    /\ weightUnitEl = "lbs"
    /\ suspensionTravelEl = Empty
    /\ forkTravelEl = Empty
    /\ ridingStyleEl = "trail"
    /\ bikeModelEl = ""
    /\ data = InitData
    /\ page = InitPage
    /\ resultsDisplay = "initial"
    /\ lastAlert = ""
    /\ calls = << >>
    /\ lastLookup = [f \in {"getBikePreset", "getRidingProfile", "getPresetCombination"}
                        |-> NoLookup]

Init == InitApp /\ InitLibrary /\ InitDebounce({0})

----------------------------------------------------------------------------
(* Spec: the page as the user drives it.                                   *)

WeightTexts == {Empty, Junk, IntText(0), IntText(180)}
TravelTexts == {Empty, IntText(0), IntText(140)}
BikeModels  == {"", "trailMTB", "nope"}

Next ==
    \/ SetRiderWeight(WeightTexts)
    \/ SetSuspensionTravel(TravelTexts)
    \/ SetForkTravel(TravelTexts)
    \/ handleBikeModelChange(BikeModels)
    \/ handleCalculate
    \/ handleReset

Spec == Init /\ [][Next]_vars

----------------------------------------------------------------------------
(* SpecCalc: the calculation over a form the user has filled in; the       *)
(* weight and the travels are drawn at the start, the unit and the style   *)
(* are changed between calculations.                                       *)

CalcWeights == {Junk, IntText(0), IntText(100), IntText(180), IntText(450)}
CalcTravels == {IntText(0), IntText(140), IntText(160)}
Units       == {"lbs", "kg"}
Styles      == {"xc", "trail", "enduro", "dh", "park", "constructor"}

InitCalc ==
    /\ riderWeightEl \in CalcWeights
    /\ weightUnitEl = "lbs"
    /\ suspensionTravelEl \in CalcTravels
    /\ forkTravelEl \in CalcTravels
    /\ ridingStyleEl = "trail"
    /\ bikeModelEl = ""
    /\ data = InitData
    /\ page = InitPage
    /\ resultsDisplay = "initial"
    /\ lastAlert = ""
    /\ calls = << >>
    /\ lastLookup = [f \in {"getBikePreset", "getRidingProfile", "getPresetCombination"}
                        |-> NoLookup]
    /\ InitLibrary
    /\ InitDebounce({0})

NextCalc ==
    \/ SetWeightUnit(Units)
    \/ SetRidingStyle(Styles)
    \/ handleCalculate

SpecCalc == InitCalc /\ [][NextCalc]_vars

----------------------------------------------------------------------------
(* SpecPure: direct calls of calculateSetup, calculateForkSetup and        *)
(* calculateShockSetup interleaved with the handlers.                      *)

PureTravels     == {IntText(140), IntText(160)}
PureWeights     == {JsNum(180)}
PureMultipliers == {JsDec(10, 10), JsDec(12, 10)}

InitPure ==
    /\ riderWeightEl = IntText(180)
    /\ weightUnitEl = "lbs"
    /\ suspensionTravelEl \in PureTravels
    /\ forkTravelEl \in PureTravels
    /\ ridingStyleEl = "trail"
    /\ bikeModelEl = ""
    /\ data = InitData
    /\ page = InitPage
    /\ resultsDisplay = "initial"
    /\ lastAlert = ""
    /\ calls = << >>
    /\ lastLookup = [f \in {"getBikePreset", "getRidingProfile", "getPresetCombination"}
                        |-> NoLookup]
    /\ InitLibrary
    /\ InitDebounce({0})

NextPure ==
    \/ SetForkTravel(PureTravels)
    \/ handleCalculate
    \/ CallCalculateSetup
    \/ CallCalculateForkSetup(PureWeights, PureMultipliers)
    \/ CallCalculateShockSetup(PureWeights, PureMultipliers)

SpecPure == InitPure /\ [][NextPure]_vars

----------------------------------------------------------------------------
(* SpecCatalog: lookups in the preset catalog by any caller.               *)

\* the riding style ids a caller of the application can name
RidingStyleEnum == {"xc", "trail", "enduro", "dh", "casual", "park"}

CatalogIds ==
    DOMAIN BIKE_PRESETS \cup DOMAIN RIDING_PROFILES \cup DOMAIN PRESET_COMBINATIONS
        \cup RidingStyleEnum \cup ObjectPrototypeKeys \cup {"", "nope"}

NextCatalog ==
    \/ CallGetBikePreset(CatalogIds)
    \/ CallGetRidingProfile(CatalogIds)
    \/ CallGetPresetCombination(CatalogIds)

SpecCatalog == Init /\ [][NextCatalog]_vars

----------------------------------------------------------------------------
(* SpecAlias: a caller of the catalog that keeps the objects the lookups   *)
(* return and writes to them.                                              *)

AliasIds   == {"trailMTB", "trail", "trail-mtb-trail", "nope", "constructor"}
AliasNames == {"changed"}

NextAlias ==
    \/ CallGetBikePreset(AliasIds)
    \/ CallGetRidingProfile(AliasIds)
    \/ CallGetPresetCombination(AliasIds)
    \/ AssignNameOfReturned(AliasNames)

SpecAlias == Init /\ [][NextAlias]_vars

----------------------------------------------------------------------------
(* SpecMath: calls of the functions of suspension-math.js.                 *)

MathArgs == {JsNaN, JsNeg(JsNum(1)), JsNum(0), JsNum(2), JsDec(25, 10), JsNum(7)}

DampingRatios ==
    {JsNaN, JsNeg(JsDec(1, 10)), JsNum(0), JsDec(999, 1000), NearOne(99999, 99999),
     JsNum(1), JsDec(10, 10), NearOne(100000, 1), JsDec(1001, 1000), JsNum(2)}

NextMath ==
    \/ CallSpringRate(MathArgs)
    \/ CallNaturalFrequency(MathArgs)
    \/ CallDampingCoefficient(MathArgs)
    \/ CallDampingRatio(MathArgs)
    \/ CallCriticalDamping(MathArgs)
    \/ CallPeriod(MathArgs)
    \/ CallClassifyDamping(DampingRatios)
    \/ CallDeflection(MathArgs)
    \/ CallSeriesSpringRate(MathArgs)
    \/ CallParallelSpringRate(MathArgs)

SpecMath == Init /\ [][NextMath]_vars

----------------------------------------------------------------------------
(* SpecUnits: calls of the unit conversions of utils.js.                   *)

MaxUnit == 12

UnitValues ==
    {JsNum(i) : i \in 0..MaxUnit} \cup {JsNeg(JsNum(i)) : i \in 1..MaxUnit}
        \cup {JsNum(100), JsNum(180), JsDec(25, 10), JsNeg(JsDec(25, 10))}
        \cup {JsNaN, JsInf, JsString, JsUndefined}

NextUnits ==
    \/ CallLbsToKg(UnitValues)
    \/ CallKgToLbs(UnitValues)
    \/ CallMmToInches(UnitValues)
    \/ CallInchesToMm(UnitValues)

SpecUnits == Init /\ [][NextUnits]_vars

----------------------------------------------------------------------------
(* SpecExport: the page with its export button; the travels are filled in  *)
(* by a preset and the fork travel can be overwritten.                      *)

ExportWeights    == {IntText(100), IntText(180)}
ExportForkTravel == {IntText(160)}
ExportBikes      == {"", "trailMTB"}

NextExport ==
    \/ SetRiderWeight(ExportWeights)
    \/ SetForkTravel(ExportForkTravel)
    \/ handleBikeModelChange(ExportBikes)
    \/ handleCalculate
    \/ handleReset
    \/ handleExport

SpecExport == Init /\ [][NextExport]_vars

----------------------------------------------------------------------------
(* SpecDebounce: one debounced function, called at any times with any      *)
(* arguments.  The event loop runs a timer that stays due, and time passes. *)

Waits        == {0, 1, 2}
DebounceArgs == {"a", "b"}

NextDebounce ==
    \/ executedFunction(DebounceArgs)
    \/ later
    \/ TimePasses

InitWrapper == InitApp /\ InitLibrary /\ InitDebounce(Waits)

SpecDebounce ==
    /\ InitWrapper
    /\ [][NextDebounce]_vars
    /\ WF_vars(later)
    /\ WF_vars(TimePasses)

----------------------------------------------------------------------------
(* SpecResolve: a caller that looks combinations up and resolves the bike  *)
(* and the profile of what it got.                                         *)

ResolveIds == DOMAIN PRESET_COMBINATIONS \cup ObjectPrototypeKeys \cup {"", "nope"}

NextResolve ==
    \/ CallGetPresetCombination(ResolveIds)
    \/ ResolveBike
    \/ ResolveProfile

SpecResolve == Init /\ [][NextResolve]_vars

----------------------------------------------------------------------------
(* Claims.                                                                 *)

\* a setup has been computed from data and written to the page
Produced == page # InitPage

ClickFields == {"forkCompression", "forkRebound", "shockCompression", "shockRebound"}

\* the rider weight of data in 1e-5 lb (kg weights times 2.20462)
WeightLbs5(d) ==
    IF d.weightUnit = "kg" THEN d.riderWeight.v * 220462 ELSE d.riderWeight.v * 100000

\* C1: for every rider weight in [0,1000] lbs, travel in [0,250] mm, style and
\* component, the compression and rebound click counts of the produced setup
\* are integers in [0,40].
C1_ClicksWithinRange ==
    ( /\ Produced
      /\ data.riderWeight.k = "int"
      /\ WeightLbs5(data) <= 1000 * 100000
      /\ data.forkTravel.k = "int" /\ data.forkTravel.v \in 0..250
      /\ data.suspensionTravel.k = "int" /\ data.suspensionTravel.v \in 0..250 )
    => \A f \in ClickFields : page[f].k = "int" /\ page[f].v \in 0..40

\* a form field holds the text of a strictly positive number
PositiveText(t) == t.k = "int" /\ t.v > 0

InvalidRequest ==
    \/ ~PositiveText(riderWeightEl)
    \/ ~PositiveText(suspensionTravelEl)
    \/ ~PositiveText(forkTravelEl)

\* C2: a calculation request whose rider weight, fork travel or shock travel is
\* not a strictly positive number is rejected by validation, and no setup is
\* computed or displayed for it.
C2_InvalidRequestRejected ==
    [][ (handleCalculate /\ InvalidRequest)
            => (lastAlert' # "" /\ UNCHANGED << data, page, resultsDisplay >>) ]_vars

SameCall(a, b) == a.fn = b.fn /\ a.w = b.w /\ a.m = b.m

UnknownPresetRequest ==
    /\ bikeModelEl # ""
    /\ bikeModelEl \notin DOMAIN bikePresets
    /\ suspensionTravelEl = Empty
    /\ forkTravelEl = Empty

TableOf(f) ==
    CASE f = "getBikePreset"        -> BIKE_PRESETS
      [] f = "getRidingProfile"     -> RIDING_PROFILES
      [] f = "getPresetCombination" -> PRESET_COMBINATIONS

\* C5: for every string id, getBikePreset, getRidingProfile and
\* getPresetCombination return the catalog entry when id is one of the table's
\* own ids and null for every other id.
C5_LookupEntryOrNull ==
    \A f \in DOMAIN lastLookup :
        LET c == lastLookup[f]
        IN  c # NoLookup
                => c.r = IF c.id \in DOMAIN TableOf(f)
                         THEN [k |-> "ref", id |-> c.id] ELSE Null

\* C6: for every riding style id that is not a known style the recommendation
\* is computed with the multiplier 1.0, so its numeric output equals the output
\* for style trail on the same weight and travel, and the note is the generic
\* fallback note.
C6_UnknownStyleAsTrail ==
    (Produced /\ data.ridingStyle \notin DOMAIN multipliers)
        => LET asTrail == [data EXCEPT !.ridingStyle = "trail"]
               expected == displayResults(asTrail, calculateSetup(asTrail))
           IN  page = [expected EXCEPT !.setupNotes = FallbackNote]

\* C7: every riding style of {xc, trail, enduro, dh, casual, park} resolves to
\* a style profile: getRidingProfile returns an entry for it, and the
\* multiplier table and the note table have an own entry for it.
C7_EveryStyleResolves ==
    LET c == lastLookup["getRidingProfile"]
    IN  c.id \in RidingStyleEnum
            => /\ c.r.k = "ref"
               /\ c.id \in DOMAIN multipliers
               /\ c.id \in DOMAIN notes

\* the multiplier of a style in tenths, as the claims state it
CompressionMultiplier10(style) ==
    CASE style = "xc" -> 12 [] style = "trail" -> 10 [] style = "enduro" -> 9
      [] style = "dh" -> 8 [] OTHER -> 10

\* round(x) for x = a / b >= 0, half up
RoundHalfUp(a, b) == (2 * a + b) \div (2 * b)

ExpectedForkCompression(d) ==
    RoundHalfUp((WeightLbs5(d) \div 2) * CompressionMultiplier10(d.ridingStyle), 5000000)
ExpectedShockCompression(d) ==
    RoundHalfUp((WeightLbs5(d) \div 2) * CompressionMultiplier10(d.ridingStyle), 6000000)
ExpectedForkRebound(c)  == RoundHalfUp(12 * c, 10)
ExpectedShockRebound(c) == RoundHalfUp(115 * c, 100)

SpringRateMultiplier100(style) ==
    CASE style = "xc" -> 115 [] style = "trail" -> 100 [] style = "enduro" -> 95
      [] style = "dh" -> 85

\* toFixed(1), in tenths, of weight * 4.448 * factor * m / travel; factor8 is
\* 4448 * factor / 8 (fork 2502, shock 3058) and m100 is m in hundredths
ExpectedSpringTenths(weight, travel, factor8, m100) ==
    RoundHalfUp(weight * factor8 * m100, 12500 * travel)

\* C9: for each style the spring rate of both components is scaled by the
\* style's spring-rate multiplier (xc 1.15, trail 1.0, enduro 0.95, dh 0.85)
\* and the compression clicks by its compression multiplier (xc 1.2, trail 1.0,
\* enduro 0.9, dh 0.8).
C9_SeparateMultipliers ==
    ( /\ Produced
      /\ data.ridingStyle \in {"xc", "trail", "enduro", "dh"}
      /\ data.weightUnit = "lbs"
      /\ data.riderWeight.k = "int" /\ data.riderWeight.v > 0
      /\ data.forkTravel.v > 0 /\ data.suspensionTravel.v > 0 )
    => /\ page.forkSpringRate =
            [k |-> "tenths",
             v |-> ExpectedSpringTenths(data.riderWeight.v, data.forkTravel.v, 2502,
                                        SpringRateMultiplier100(data.ridingStyle))]
       /\ page.shockSpringRate =
            [k |-> "tenths",
             v |-> ExpectedSpringTenths(data.riderWeight.v, data.suspensionTravel.v, 3058,
                                        SpringRateMultiplier100(data.ridingStyle))]
       /\ page.forkCompression = IntText(ExpectedForkCompression(data))
       /\ page.shockCompression = IntText(ExpectedShockCompression(data))

MaxDelta == 3

C12_PresetKeepsSuppliedTravel ==
    [][ (bikeModelEl' # bikeModelEl /\ bikeModelEl' \in DOMAIN bikePresets)
            => /\ forkTravelEl # Empty => forkTravelEl' = forkTravelEl
               /\ suspensionTravelEl # Empty => suspensionTravelEl' = suspensionTravelEl
               /\ forkTravelEl = Empty
                    => forkTravelEl' = IntText(bikePresets[bikeModelEl'].forkTravel)
               /\ suspensionTravelEl = Empty
                    => suspensionTravelEl' = IntText(bikePresets[bikeModelEl'].suspensionTravel)
      ]_vars

\* C13: after any sequence of catalog operations and of writes by a caller
\* to the values the catalog returned, the bike preset, riding profile and
\* combination tables equal their contents at load.
C13_CatalogAsLoaded ==
    /\ catalog.BIKE_PRESETS = BIKE_PRESETS
    /\ catalog.RIDING_PROFILES = RIDING_PROFILES
    /\ catalog.PRESET_COMBINATIONS = PRESET_COMBINATIONS
    /\ getAvailableBikes = DOMAIN BIKE_PRESETS
    /\ getAvailableProfiles = DOMAIN RIDING_PROFILES
    /\ getAvailableCombinations = DOMAIN PRESET_COMBINATIONS

\* the arguments of each function that must be positive, by position
RequiredPositive ==
    [fn \in {"calculateSpringRate", "calculateNaturalFrequency", "calculateCriticalDamping",
             "calculateDampingCoefficient", "calculateDampingRatio", "calculatePeriod",
             "calculateDeflection", "calculateSeriesSpringRate",
             "calculateParallelSpringRate"} |->
        CASE fn \in {"calculateDampingCoefficient", "calculateDampingRatio"} -> {2, 3}
          [] fn = "calculatePeriod"     -> {1}
          [] fn = "calculateDeflection" -> {2}
          [] OTHER                      -> {1, 2}]

StrictlyPositive(x) == x.k \in {"num", "inf"} /\ x.sg = 1

\* the arguments of a call lie outside the function's domain
OutsideDomain(c) ==
    \/ \E i \in RequiredPositive[c.fn] : ~StrictlyPositive(c.args[i])
    \/ /\ c.fn \in {"calculateDampingCoefficient", "calculateDampingRatio"}
       /\ LtZero(c.args[1])

\* C14: every mechanical function fails with an error and returns no number
\* whenever a required-positive argument is not strictly positive, the two
\* damping functions also when the damping ratio or coefficient is negative;
\* for all arguments inside these domains the functions return a value.
C14_PhysicsDomain ==
    lastMath.fn \in DOMAIN RequiredPositive
        => IF OutsideDomain(lastMath) THEN lastMath.r.k = "throw"
                                      ELSE lastMath.r.k = "return"

\* a damping ratio n / D >= 0 against 1, by its numerator and denominator
BelowOne(z) == BigLess(z.n, BigProd(z.d))
IsOne(z)    == z.n = BigProd(z.d)

\* z lies within 1e-9 of 1
WithinTolerance(z) ==
    /\ ~JsLess(z, NearOne(99999, 99990))
    /\ ~JsLess(NearOne(100000, 10), z)

ClassifyCall == lastMath.fn = "classifyDamping" /\ lastMath.args[1].k = "num"

\* C15 (as stated): a negative ratio fails; a ratio within 1e-9 of 1 is
\* critically damped, any other ratio below 1 is underdamped and any other
\* ratio above 1 is overdamped.
C15_ClassifyWithTolerance ==
    ClassifyCall
        => LET z == lastMath.args[1]
           IN  lastMath.r =
                  IF z.sg < 0 THEN Throw("Damping ratio cannot be negative")
                  ELSE IF WithinTolerance(z) THEN Return("critically damped")
                  ELSE IF BelowOne(z) THEN Return("underdamped")
                  ELSE Return("overdamped")

\* C15 (amended): a negative ratio fails; every ratio below 1 is underdamped,
\* the ratio exactly 1 is critically damped and every ratio above 1 is
\* overdamped, with no tolerance around 1.
C15_ClassifyExact ==
    ClassifyCall
        => LET z == lastMath.args[1]
           IN  lastMath.r =
                  IF z.sg < 0 THEN Throw("Damping ratio cannot be negative")
                  ELSE IF BelowOne(z) THEN Return("underdamped")
                  ELSE IF IsOne(z) THEN Return("critically damped")
                  ELSE Return("overdamped")

C15_Witness ==
    /\ lastMath.fn = "classifyDamping"
    /\ lastMath.args = << NearOne(100000, 1) >>
    /\ lastMath.r = Return("overdamped")

\* the latest call was of fn with two positive, finite rates
RatesCall(fn) ==
    /\ lastMath.fn = fn
    /\ \A i \in {1, 2} : lastMath.args[i].k = "num" /\ lastMath.args[i].sg = 1

\* C16: for all positive spring rates, the series rate and the parallel rate
\* of k1, k2 equal those of k2, k1, and the parallel rate of k, k is 2k.
C16_SpringRateSymmetry ==
    LET k1 == lastMath.args[1]
        k2 == lastMath.args[2]
    IN  /\ RatesCall("calculateSeriesSpringRate")
            => /\ lastMath.r.k = "return"
               /\ calculateSeriesSpringRate(k2, k1).k = "return"
               /\ JsEq(lastMath.r.v, calculateSeriesSpringRate(k2, k1).v)
        /\ RatesCall("calculateParallelSpringRate")
            => /\ lastMath.r.k = "return"
               /\ calculateParallelSpringRate(k2, k1).k = "return"
               /\ JsEq(lastMath.r.v, calculateParallelSpringRate(k2, k1).v)
               /\ k1 = k2 => JsEq(lastMath.r.v, JsMul(JsNum(2), k1))

C16_Witness ==
    /\ lastMath.fn = "calculateSeriesSpringRate"
    /\ lastMath.args = << JsNum(2), JsDec(25, 10) >>
    /\ lastMath.r.k = "return"
    /\ JsEq(lastMath.r.v, JsDec(10, 9))

\* |a - b| <= 1e-6 * b for positive a and b
WithinRelative(a, b) ==
    /\ ~JsLess(JsMul(b, JsNum(1000001)), JsMul(a, JsNum(1000000)))
    /\ ~JsLess(JsMul(a, JsNum(1000000)), JsMul(b, JsNum(999999)))

PositiveArgument == lastConversion.x.k = "num" /\ lastConversion.x.sg = 1

\* pounds to kilograms and back, inches to millimetres and back
RoundTripsWithinRelative ==
    /\ (lastConversion.fn = "lbsToKg" /\ PositiveArgument)
            => WithinRelative(kgToLbs(lastConversion.r), lastConversion.x)
    /\ (lastConversion.fn = "inchesToMm" /\ PositiveArgument)
            => WithinRelative(mmToInches(lastConversion.r), lastConversion.x)

\* the rider weight x kg as calculateSetup normalises it to pounds
NormalisedWeight(x) ==
    weightInLbsOf([data EXCEPT !.riderWeight = [k |-> "int", v |-> BigToInt(x.n)],
                               !.weightUnit = "kg"])

\* C17: for every positive x, pounds to kilograms and back and inches to
\* millimetres and back return x within 1e-6 relative error, and every
\* conversion of the program, the kg-to-lbs normalisation of the rider weight
\* included, uses 1 lb = 0.453592 kg: the normalised weight of x kg is
\* kgToLbs(x) within 1e-6.
C17_RoundTripOneConstant ==
    /\ RoundTripsWithinRelative
    /\ (lastConversion.fn = "kgToLbs" /\ PositiveArgument /\ lastConversion.x.d = << >>)
            => WithinRelative(NormalisedWeight(lastConversion.x), lastConversion.r)

\* C18: each unit conversion fails, and returns no converted number, for
\* every input that is not a finite number and for every negative input.
C18_ConversionRejectsInvalid ==
    (lastConversion.fn # ""
        /\ (~isValidNumber(lastConversion.x) \/ lastConversion.x.sg < 0))
    => lastConversion.r = JsNull

\* C19: a handleCalculate call whose validation fails leaves the stored inputs,
\* the displayed result fields and notes, and the visibility of the results
\* section as they were; a call whose validation succeeds stores the form's
\* inputs, then shows the results section with the notes of the stored inputs.
C19_RejectedCalculateChangesNothing ==
    [][ /\ (~validateInput /\ handleCalculate)
            => UNCHANGED << data, page, resultsDisplay, formVars >>
        /\ (validateInput /\ handleCalculate)
            => /\ data' = collectFormData
               /\ page'.setupNotes = generateNotes(data')
               /\ resultsDisplay' = "block" ]_vars

\* a rejected calculation after a successful one: the earlier setup of another
\* form content is still displayed
C19_Witness ==
    /\ lastAlert # ""
    /\ ~validateInput
    /\ Produced
    /\ resultsDisplay = "block"
    /\ data # collectFormData

\* the inputs an exported record echoes, as the data they were written from
EchoedInputs ==
    [riderWeight      |-> exported.riderWeight[1],
     weightUnit       |-> exported.riderWeight[3],
     suspensionTravel |-> exported.suspensionTravel[1],
     forkTravel       |-> exported.forkTravel[1],
     ridingStyle      |-> exported.ridingStyle,
     bikeModel        |-> IF exported.bikeModel = "Custom" THEN "" ELSE exported.bikeModel]

ResultsOf(setup) ==
    [fork  |-> [springRate  |-> setup.fork.springRate,
                compression |-> setup.fork.compression,
                rebound     |-> setup.fork.rebound,
                sag         |-> setup.fork.sag],
     shock |-> [springRate  |-> setup.shock.springRate,
                compression |-> setup.shock.compression,
                rebound     |-> setup.shock.rebound,
                sag         |-> setup.shock.sag]]

BlankResults ==
    [fork  |-> [springRate |-> Blank, compression |-> Blank, rebound |-> Blank, sag |-> Blank],
     shock |-> [springRate |-> Blank, compression |-> Blank, rebound |-> Blank, sag |-> Blank]]

\* C20: whatever the sequence of edits, preset changes, calculations, resets
\* and exports, the fork and shock results of the exported record are those
\* computed from the inputs the record echoes.
C20_ExportSelfConsistent ==
    exported # NoExport => exported.results = ResultsOf(calculateSetup(EchoedInputs))

\* once a calculation has succeeded the exported record is self-consistent,
\* also when the form differs from the stored inputs; before that it echoes the
\* initial inputs with blank results
ExportConsistentOnceCalculated ==
    exported # NoExport =>
        IF exported.results = BlankResults
        THEN EchoedInputs = InitData
        ELSE exported.results = ResultsOf(calculateSetup(EchoedInputs))

ExportAfterResetOfCalculatedForm ==
    /\ exported # NoExport
    /\ exported.results # BlankResults
    /\ resultsDisplay = "none"
    /\ riderWeightEl = Empty

\* the calls of the debounced function so far, and the place of the n-th in
\* the events
CallEvents == {i \in DOMAIN events : events[i].type = "call"}
NumCalls   == Cardinality(CallEvents)
CallIndex(n) ==
    CHOOSE i \in CallEvents : Cardinality({k \in CallEvents : k <= i}) = n

\* func is not invoked within the wait of a call made before the invocation
NotWithinWait ==
    \A i, j \in DOMAIN events :
        (i < j /\ events[i].type = "call" /\ events[j].type = "func")
            => events[j].at >= events[i].at + wait

\* an invocation comes straight after a call of the debounced function, no
\* other invocation in between, and with that call's arguments
OncePerLastCall ==
    \A j \in DOMAIN events :
        events[j].type = "func"
            => /\ j > 1
               /\ events[j - 1].type = "call"
               /\ events[j - 1].args = events[j].args

Made(n) == NumCalls >= n

\* func has been invoked for the n-th call
Invoked(n) ==
    /\ Made(n)
    /\ CallIndex(n) < Len(events)
    /\ events[CallIndex(n) + 1] = [type |-> "func", args |-> events[CallIndex(n)].args,
                                   at |-> events[CallIndex(n) + 1].at]

\* the debounced function was called again before the timer of the n-th call ran
Superseded(n) ==
    /\ Made(n + 1)
    /\ CallIndex(n + 1) = CallIndex(n) + 1

\* the debounced function was called again less than wait after the n-th call
FollowedWithinWait(n) ==
    /\ Made(n + 1)
    /\ events[CallIndex(n + 1)].at - events[CallIndex(n)].at < wait

\* C21 (as stated): func is never invoked while a later call of the debounced
\* function is within its wait period, and a burst is the calls less than wait
\* apart: every call is either followed by another less than wait later or is
\* the last of its burst, and then func is eventually invoked once, with its
\* arguments, no earlier than wait after it.
C21_OncePerTimedBurst ==
    /\ [](NotWithinWait /\ OncePerLastCall)
    /\ \A n \in 1..MaxWrapperCalls : Made(n) ~> (Invoked(n) \/ FollowedWithinWait(n))

\* C21 (amended): func is never invoked within the wait period of an earlier
\* call; every invocation carries the arguments of the call just before it; and
\* every call is either followed by another call before its timer has run,
\* however long after, or func is eventually invoked once with its arguments,
\* no earlier than wait after it.
C21_OncePerUninterruptedCall ==
    /\ [](NotWithinWait /\ OncePerLastCall)
    /\ \A n \in 1..MaxWrapperCalls : Made(n) ~> (Invoked(n) \/ Superseded(n))

\* a burst of two calls less than wait apart, invoked once, with the arguments
\* of the second and wait after it
C21_Witness ==
    /\ wait = 2
    /\ Made(2)
    /\ FollowedWithinWait(1)
    /\ events[CallIndex(1)].args # events[CallIndex(2)].args
    /\ Invoked(2)
    /\ events[3].at = events[2].at + wait
    /\ Len(events) = 3

\* every entry of the combination table names an own id of the bike preset
\* table and an own id of the riding profile table
CombinationsReferToCatalog ==
    \A id \in DOMAIN catalog.PRESET_COMBINATIONS :
        /\ catalog.PRESET_COMBINATIONS[id].bike \in DOMAIN catalog.BIKE_PRESETS
        /\ catalog.PRESET_COMBINATIONS[id].profile \in DOMAIN catalog.RIDING_PROFILES

\* the bike, or the profile, of the combination last returned has been resolved
ResolvedBike ==
    /\ lastLookup["getPresetCombination"].r.k \in {"ref", "proto"}
    /\ lastLookup["getBikePreset"].id = BikeOf(lastLookup["getPresetCombination"].r)

ResolvedProfile ==
    /\ lastLookup["getPresetCombination"].r.k \in {"ref", "proto"}
    /\ lastLookup["getRidingProfile"].id = ProfileOf(lastLookup["getPresetCombination"].r)

\* C22: every entry of the combination table refers to an existing bike preset
\* and an existing riding profile, and resolving the bike and the profile of
\* whatever getPresetCombination returned never yields null.
C22_CombinationsResolve ==
    /\ CombinationsReferToCatalog
    /\ ResolvedBike => lastLookup["getBikePreset"].r # Null
    /\ ResolvedProfile => lastLookup["getRidingProfile"].r # Null

\* the bike and the profile of every entry of the table that was returned
\* resolve to entries
EntriesResolve ==
    /\ (ResolvedBike /\ lastLookup["getPresetCombination"].r.k = "ref")
            => lastLookup["getBikePreset"].r = [k |-> "ref", id |-> lastLookup["getBikePreset"].id]
    /\ (ResolvedProfile /\ lastLookup["getPresetCombination"].r.k = "ref")
            => lastLookup["getRidingProfile"].r = [k |-> "ref", id |-> lastLookup["getRidingProfile"].id]

EntryResolved ==
    /\ ResolvedBike /\ ResolvedProfile
    /\ lastLookup["getPresetCombination"].id = "downhill-mtb-downhill"
    /\ lastLookup["getRidingProfile"].r = [k |-> "ref", id |-> "downhill"]
====
